---------------------------- MODULE Spec2Model ----------------------------
(***************************************************************************)
(* NannyTrackPro: the clock-in / clock-out controller, the session store   *)
(* kept in localStorage, the 14-day period filter and the pay totals.      *)
(*                                                                         *)
(* The repository holds two App components: src/App.tsx (fixed storage     *)
(* keys, geofence, persistence by effects) and src/unnamed/part_001 (sync  *)
(* key, saveToCloud, no geofence).  The variable app says which one is     *)
(* mounted; every action models one handler, effect or continuation of one *)
(* of them together with the re-render and the effects that follow it.     *)
(*                                                                         *)
(* Modelling conventions                                                   *)
(*  - null / undefined is the record NULL.                                 *)
(*  - A JS object is a record; an optional property that is not set is a   *)
(*    field that is not in the record's DOMAIN.                            *)
(*  - A Date is [day, ms]: whole days since the model's epoch (1 January   *)
(*    of a 365-day year) and milliseconds into the day; local time is UTC. *)
(*  - An ISO string is <<day, hours, minutes, seconds, millis>>.           *)
(*  - A JSON text of an object is the sequence of its <<name, value>>      *)
(*    pairs in property order; of an array, the sequence of its elements'  *)
(*    texts.                                                               *)
(***************************************************************************)
EXTENDS Integers, Sequences, FiniteSets, TLC

VARIABLES
    app,              \* "App" (src/App.tsx) or "Sync" (src/unnamed/part_001)
    role,             \* useMemo role: "NANNY" or "PARENT"
    sessions,         \* useState sessions: sequence of TimeSession
    activeSession,    \* useState activeSession: TimeSession or NULL
    status,           \* useState status: ClockStatus
    error,            \* useState error: NULL or a message
    syncKey,          \* useState syncKey (part_001)
    homeConfig,       \* useState homeConfig
    periodOffset,     \* useState periodOffset
    hourlyRate,       \* useState hourlyRate
    filteredSessions, \* useMemo filteredSessions
    totalHours,       \* useMemo totalHours: hundredths, as printed by toFixed(2)
    totalPay,         \* useMemo totalPay: hundredths, as printed by toFixed(2)
    localStorage,     \* window.localStorage: a function from the keys present
    pending,          \* handleClockIn calls suspended at await getCurrentPosition
    clock,            \* the wall clock, what new Date() returns
    nextId,           \* the next crypto.randomUUID()
    aiSummary,        \* useState aiSummary
    isAnalyzing,      \* useState isAnalyzing
    summaryCalls,     \* report handlers suspended at await getSessionSummary
    last              \* history: the last operation (Tick apart) and its outcome

vars == <<app, role, sessions, activeSession, status, error, syncKey, homeConfig,
          periodOffset, hourlyRate, filteredSessions, totalHours, totalPay,
          localStorage, pending, clock, nextId, aiSummary, isAnalyzing,
          summaryCalls, last>>

uiVars == <<periodOffset, hourlyRate, filteredSessions, totalHours, totalPay>>

aiVars == <<aiSummary, isAnalyzing, summaryCalls>>

-----------------------------------------------------------------------------
(* Bounds of the model *)

MaxId == 2          \* sessions created in one behaviour
MaxPending == 2     \* handleClockIn calls suspended at the same time
MaxOffset == 1      \* largest periodOffset selected
MaxSummaryCalls == 2 \* report handlers suspended at the same time

-----------------------------------------------------------------------------
(* Values *)

NULL == [null |-> TRUE]

CLOCKED_OUT == "CLOCKED_OUT"
CLOCKED_IN == "CLOCKED_IN"
IDLE == "IDLE"

DayMs == 24 * 60 * 60 * 1000
MinuteMs == 60000
cycleDays == 14

DefaultSyncKey == "our-nanny-2024"
SyncKeys == {DefaultSyncKey, "family-b"}

DefaultHomeConfig == [lat |-> 0, lng |-> 0, radiusMeters |-> 200]

(* Coordinates are in microdegrees.  The stored home configs the model     *)
(* starts from, besides none: a configured home, and a home on the equator *)
(* (lat = 0, lng # 0).                                                     *)
HomeConfigs ==
    { [lat |-> 40000000, lng |-> -73000000, radiusMeters |-> 100],
      [lat |-> 0, lng |-> -73000000, radiusMeters |-> 100] }

(* The positions the location provider reports lie on the meridian of the  *)
(* home, this many microdegrees of latitude north of it: about 50 m and    *)
(* about 150 m.  part_001 stores the position and never reads it: one      *)
(* position is drawn for it.                                               *)
LatOffsets(a) == IF a = "App" THEN {450, 1350} ELSE {450}

Positions(a, home) == { [lat |-> home.lat + o, lng |-> home.lng] : o \in LatOffsets(a) }

(* The wall-clock readings of the model, up to a midnight: 23:59:00.001,   *)
(* 23:59:30.001 and 00:00:00.000.  The second lies half a minute after the *)
(* first (30000 ms), the third 29999 ms after the second and 59999 ms      *)
(* after the first.                                                        *)
BaseDay == 68
FirstReading == [day |-> BaseDay, ms |-> 86340001]
Readings ==
    { FirstReading,
      [day |-> BaseDay, ms |-> 86370001],
      [day |-> BaseDay + 1, ms |-> 0] }

-----------------------------------------------------------------------------
(* Date *)

\* a >= b on Date objects (their time values)
DateGE(a, b) == a.day > b.day \/ (a.day = b.day /\ a.ms >= b.ms)

\* a.getTime() - b.getTime()
ElapsedMs(a, b) == (a.day - b.day) * DayMs + (a.ms - b.ms)

\* Date.prototype.toISOString
toISOString(d) ==
    << d.day,
       d.ms \div 3600000,
       (d.ms % 3600000) \div 60000,
       (d.ms % 60000) \div 1000,
       d.ms % 1000 >>

\* new Date(isoString)
DateParse(s) ==
    [day |-> s[1], ms |-> ((s[2] * 60 + s[3]) * 60 + s[4]) * 1000 + s[5]]

\* Math.round(n / d) for d > 0: the nearest integer, a tie towards +infinity
MathRoundDiv(n, d) == (2 * n + d) \div (2 * d)

\* a TimeSession has its optional endTime / durationInMinutes
IsCompleted(s) == "endTime" \in DOMAIN s
HasDuration(s) == "durationInMinutes" \in DOMAIN s

-----------------------------------------------------------------------------
(* JSON *)

SessionProps ==
    <<"id", "startTime", "location", "isOutOfBounds", "endTime", "durationInMinutes">>
HomeConfigProps == <<"lat", "lng", "radiusMeters">>

\* JSON.stringify of an object whose properties were set in the order props
StringifyObject(obj, props) ==
    LET present == SelectSeq(props, LAMBDA f : f \in DOMAIN obj)
    IN  [i \in 1..Len(present) |-> <<present[i], obj[present[i]]>>]

\* JSON.parse of the text of an object
ParseObject(txt) ==
    [f \in {txt[i][1] : i \in 1..Len(txt)} |->
        txt[CHOOSE i \in 1..Len(txt) : txt[i][1] = f][2]]

\* JSON.stringify / JSON.parse of a TimeSession[]
StringifySessions(list) ==
    [i \in 1..Len(list) |-> StringifyObject(list[i], SessionProps)]
ParseSessions(txt) == [i \in 1..Len(txt) |-> ParseObject(txt[i])]

-----------------------------------------------------------------------------
(* localStorage *)

hasItem(store, k) == k \in DOMAIN store
setItem(store, k, v) == [x \in DOMAIN store \cup {k} |-> IF x = k THEN v ELSE store[x]]
removeItem(store, k) == [x \in DOMAIN store \ {k} |-> store[x]]

-----------------------------------------------------------------------------
(* Geofence Evaluator *)

(* calculateDistance, in millimetres, for two points on one meridian       *)
(* (lon1 = lon2), the only pairs the model draws.  There the haversine     *)
(* term a is sin^2(dphi/2) and R * 2 * atan2(sqrt(a), sqrt(1 - a)) is      *)
(* R * |dphi|: with R = 6371e3, R * pi / 180 = 111194.93 m per degree, or  *)
(* 111195 mm per                                                           *)
(* thousand microdegrees.                                                  *)
calculateDistance(lat1, lon1, lat2, lon2) ==
    LET dLat == IF lat2 >= lat1 THEN lat2 - lat1 ELSE lat1 - lat2
    IN  CASE lon1 = lon2 -> (dLat * 111195) \div 1000

\* dist > homeConfig.radiusMeters
OutsideRadius(distMm, home) == distMm > home.radiusMeters * 1000

\* the guard of the geofence check in src/App.tsx's handleClockIn
GeofenceConfigured(home) == home.lat # 0

-----------------------------------------------------------------------------
(* Period Filter & Aggregator *)

MonthLengths == <<31, 28, 31, 30, 31, 30, 31, 31, 30, 31, 30, 31>>

RECURSIVE MonthStart(_)
\* the day number of the first day of month m (1..12)
MonthStart(m) == IF m = 1 THEN 0 ELSE MonthStart(m - 1) + MonthLengths[m - 1]

MonthOf(day) ==
    CHOOSE m \in 1..12 : MonthStart(m) <= day /\ day < MonthStart(m) + MonthLengths[m]

\* Date.prototype.getDate: the day of the month
getDate(d) == d.day - MonthStart(MonthOf(d.day)) + 1

\* Date.prototype.setDate: day n of d's month; n < 1 or past the month's end
\* rolls into the months before or after
setDate(d, n) == [day |-> MonthStart(MonthOf(d.day)) + n - 1, ms |-> d.ms]

\* useMemo filteredSessions, evaluated at wall-clock time now
filterSessions(sess, offset, now) ==
    LET startOfPeriod == setDate(now, getDate(now) - (cycleDays * (offset + 1)))
        endOfPeriod == setDate(now, getDate(startOfPeriod) + cycleDays)
    IN  SelectSeq(sess, LAMBDA s :
            LET sDate == DateParse(s.startTime)
            IN  DateGE(sDate, startOfPeriod) /\ DateGE(endOfPeriod, sDate))

\* s.durationInMinutes || 0
DurationOrZero(s) == IF HasDuration(s) THEN s.durationInMinutes ELSE 0

RECURSIVE SumDurations(_)
\* filteredSessions.reduce((acc, s) => acc + (s.durationInMinutes || 0), 0)
SumDurations(list) ==
    IF list = <<>> THEN 0 ELSE DurationOrZero(Head(list)) + SumDurations(Tail(list))

\* (n / d).toFixed(2) for d > 0, as a number of hundredths: the magnitude is
\* rounded to the nearest hundredth, a tie to the larger one
toFixed2(n, d) ==
    LET mag == IF n >= 0 THEN n ELSE 0 - n
        h == (200 * mag + d) \div (2 * d)
    IN  IF n >= 0 THEN h ELSE 0 - h

\* useMemo totalHours
computeTotalHours(filtered) == toFixed2(SumDurations(filtered), 60)

\* useMemo totalPay: parseFloat(totalHours) * hourlyRate, then toFixed(2)
computeTotalPay(hours, rate) == toFixed2(hours * rate, 100)

-----------------------------------------------------------------------------
(* Rendering: the memos that depend on sessions *)

\* the memo values after a render in which sessions is sess (useMemo deps
\* [sessions, periodOffset], [filteredSessions], [totalHours, hourlyRate])
Rerender(sess) ==
    LET f == filterSessions(sess, periodOffset, clock)
        h == computeTotalHours(f)
    IN  /\ filteredSessions' = f
        /\ totalHours' = h
        /\ totalPay' = computeTotalPay(h, hourlyRate)
        /\ UNCHANGED <<periodOffset, hourlyRate>>

\* the error banner of the nanny view: src/App.tsx renders {error && ...};
\* part_001 keeps the error state and renders it nowhere
renderedError ==
    IF app = "App" /\ role = "NANNY" THEN error ELSE NULL

\* the CLOCK IN button is rendered (the CLOCK OUT button otherwise)
ClockInButton == role = "NANNY" /\ status = CLOCKED_OUT
ClockOutButton == role = "NANNY" /\ status # CLOCKED_OUT

-----------------------------------------------------------------------------
(* src/App.tsx *)

\* useState initialiser of homeConfig
InitialHomeConfig(store) ==
    IF hasItem(store, "home_config")
    THEN ParseObject(store["home_config"])
    ELSE DefaultHomeConfig

\* the effect that persists activeSession
App_persistActive(store, active) ==
    IF active # NULL
    THEN setItem(store, "nanny_active_session", StringifyObject(active, SessionProps))
    ELSE removeItem(store, "nanny_active_session")

\* the effect that persists sessions and homeConfig
App_persistSessions(store, sess, home) ==
    setItem(setItem(store, "nanny_sessions", StringifySessions(sess)),
            "home_config", StringifyObject(home, HomeConfigProps))

(* Mounting the component on the storage store: the state after the first  *)
(* render, the load effect, the two persist effects and the render the     *)
(* load effect asks for, with the persist effects that follow it.          *)
App_mount(store) ==
    LET home == InitialHomeConfig(store)
        sess == IF hasItem(store, "nanny_sessions")
                THEN ParseSessions(store["nanny_sessions"]) ELSE <<>>
        hasActive == hasItem(store, "nanny_active_session")
        active == IF hasActive THEN ParseObject(store["nanny_active_session"]) ELSE NULL
    IN  [ sessions |-> sess,
          activeSession |-> active,
          status |-> IF hasActive THEN CLOCKED_IN ELSE CLOCKED_OUT,
          homeConfig |-> home,
          syncKey |-> DefaultSyncKey,
          localStorage |-> App_persistActive(App_persistSessions(store, sess, home), active) ]

\* handleClockIn up to await getCurrentPosition
App_ClockInStart ==
    /\ app = "App"
    /\ ClockInButton
    /\ Len(pending) < MaxPending
    /\ error' = NULL
    /\ pending' = Append(pending, [now |-> clock])
    /\ last' = [op |-> "ClockInStart", outcome |-> "pending"]
    /\ UNCHANGED <<aiVars, app, role, sessions, activeSession, status, syncKey, homeConfig,
                   uiVars, localStorage, clock, nextId>>

RemoveAt(seq, i) == [j \in 1..(Len(seq) - 1) |-> IF j < i THEN seq[j] ELSE seq[j + 1]]

\* handleClockIn after the location arrived: the geofence check, then the
\* new session
App_ClockInLocated ==
    /\ app = "App"
    /\ \E i \in 1..Len(pending) : \E userLoc \in Positions(app, homeConfig) :
        LET call == pending[i]
            dist == calculateDistance(userLoc.lat, userLoc.lng, homeConfig.lat, homeConfig.lng)
            newSess == [ id |-> nextId,
                         startTime |-> toISOString(call.now),
                         location |-> userLoc,
                         isOutOfBounds |-> FALSE ]
        IN  /\ pending' = RemoveAt(pending, i)
            /\ IF GeofenceConfigured(homeConfig) /\ OutsideRadius(dist, homeConfig)
               THEN /\ error' = [msg |-> "Location mismatch", meters |-> MathRoundDiv(dist, 1000)]
                    /\ last' = [op |-> "ClockInLocated", outcome |-> "mismatch",
                                userLoc |-> userLoc]
                    /\ UNCHANGED <<activeSession, status, localStorage, nextId>>
               ELSE /\ nextId <= MaxId
                    /\ activeSession' = newSess
                    /\ status' = CLOCKED_IN
                    /\ localStorage' = App_persistActive(localStorage, newSess)
                    /\ nextId' = nextId + 1
                    /\ last' = [op |-> "ClockInLocated", outcome |-> "created"]
                    /\ UNCHANGED error
    /\ UNCHANGED <<aiVars, app, role, sessions, syncKey, homeConfig, uiVars, clock>>

\* handleClockIn after the location request failed or timed out
App_ClockInFailed ==
    /\ app = "App"
    /\ \E i \in 1..Len(pending) : pending' = RemoveAt(pending, i)
    /\ error' = [msg |-> "Please enable location services to clock in."]
    /\ last' = [op |-> "ClockInFailed", outcome |-> "aborted"]
    /\ UNCHANGED <<aiVars, app, role, sessions, activeSession, status, syncKey, homeConfig,
                   uiVars, localStorage, clock, nextId>>

\* completedSession with the minutes cut off (Math.floor for Math.round)
completedSession_floor(active, now) ==
    LET durationMins == ElapsedMs(now, DateParse(active.startTime)) \div MinuteMs
    IN  [f \in DOMAIN active \cup {"endTime", "durationInMinutes"} |->
            CASE f = "endTime" -> toISOString(now)
              [] f = "durationInMinutes" -> durationMins
              [] OTHER -> active[f]]

\* completedSession with a duration of 0 minutes left out
\* (durationMins || undefined)
completedSession_dropZero(active, now) ==
    LET durationMins == MathRoundDiv(ElapsedMs(now, DateParse(active.startTime)), MinuteMs)
        added == IF durationMins = 0 THEN {"endTime"} ELSE {"endTime", "durationInMinutes"}
    IN  [f \in DOMAIN active \cup added |->
            CASE f = "endTime" -> toISOString(now)
              [] f = "durationInMinutes" -> durationMins
              [] OTHER -> active[f]]

\* the session handleClockOut completes
completedSession(active, now) ==
    LET durationMins == MathRoundDiv(ElapsedMs(now, DateParse(active.startTime)), MinuteMs)
    IN  [f \in DOMAIN active \cup {"endTime", "durationInMinutes"} |->
            CASE f = "endTime" -> toISOString(now)
              [] f = "durationInMinutes" -> durationMins
              [] OTHER -> active[f]]

\* handleClockOut
App_handleClockOut ==
    IF activeSession = NULL
    THEN /\ last' = [op |-> "ClockOut", outcome |-> "noop"]
         /\ UNCHANGED <<sessions, activeSession, status, localStorage, uiVars>>
    ELSE LET completed == completedSession(activeSession, clock)
             updated == <<completed>> \o sessions
         IN  /\ sessions' = updated
             /\ activeSession' = NULL
             /\ status' = CLOCKED_OUT
             /\ localStorage' = App_persistActive(
                                  App_persistSessions(localStorage, updated, homeConfig), NULL)
             /\ Rerender(updated)
             /\ last' = [op |-> "ClockOut", outcome |-> "completed"]

(* handleClockOut is called by the CLOCK OUT button, rendered while status *)
(* is not CLOCKED_OUT; a call from anywhere else is admitted where the     *)
(* handler returns at once.                                                *)
App_ClockOut ==
    /\ app = "App"
    /\ ClockOutButton \/ activeSession = NULL
    /\ App_handleClockOut
    /\ UNCHANGED <<aiVars, app, role, error, syncKey, homeConfig, pending, clock, nextId>>

-----------------------------------------------------------------------------
(* src/unnamed/part_001 *)

SessionsKey(key) == "nanny_sessions_" \o key
ActiveKey(key) == "nanny_active_" \o key

\* useState initialiser of syncKey
InitialSyncKey(store) ==
    IF hasItem(store, "nanny_sync_key") THEN store["nanny_sync_key"] ELSE DefaultSyncKey

\* saveToCloud: the writes it makes before its first await
saveToCloud(store, key, data, active) ==
    LET s1 == setItem(store, SessionsKey(key), StringifySessions(data))
    IN  IF active # NULL
        THEN setItem(s1, ActiveKey(key), StringifyObject(active, SessionProps))
        ELSE removeItem(s1, ActiveKey(key))

\* Sync_load setting CLOCKED_IN when a session list is stored, rather than
\* when an active session is
Sync_load_statusFromList(store, key, cur) ==
    LET hasSaved == hasItem(store, SessionsKey(key))
        hasActive == hasItem(store, ActiveKey(key))
    IN  [ sessions |-> IF hasSaved THEN ParseSessions(store[SessionsKey(key)])
                       ELSE cur.sessions,
          activeSession |-> IF hasActive THEN ParseObject(store[ActiveKey(key)])
                            ELSE cur.activeSession,
          status |-> IF hasSaved THEN CLOCKED_IN ELSE cur.status,
          reloaded |-> hasSaved ]

(* The load effect (deps [syncKey]) run under key on the storage store     *)
(* from the state cur: what is not stored under key is left as it was.     *)
Sync_load(store, key, cur) ==
    LET hasSaved == hasItem(store, SessionsKey(key))
        hasActive == hasItem(store, ActiveKey(key))
    IN  [ sessions |-> IF hasSaved THEN ParseSessions(store[SessionsKey(key)])
                       ELSE cur.sessions,
          activeSession |-> IF hasActive THEN ParseObject(store[ActiveKey(key)])
                            ELSE cur.activeSession,
          status |-> IF hasActive THEN CLOCKED_IN ELSE cur.status,
          reloaded |-> hasSaved ]

\* mounting the component on the storage store
Sync_mount(store) ==
    LET key == InitialSyncKey(store)
        loaded == Sync_load(store, key,
                     [sessions |-> <<>>, activeSession |-> NULL, status |-> CLOCKED_OUT])
    IN  [ sessions |-> loaded.sessions,
          activeSession |-> loaded.activeSession,
          status |-> loaded.status,
          homeConfig |-> InitialHomeConfig(store),
          syncKey |-> key,
          localStorage |-> store ]

\* handleClockIn up to await getCurrentPosition; the continuation closes over
\* the sessions and the syncKey of the render that made it
Sync_ClockInStart ==
    /\ app = "Sync"
    /\ ClockInButton
    /\ Len(pending) < MaxPending
    /\ error' = NULL
    /\ pending' = Append(pending, [now |-> clock, sessions |-> sessions, syncKey |-> syncKey])
    /\ last' = [op |-> "ClockInStart", outcome |-> "pending"]
    /\ UNCHANGED <<aiVars, app, role, sessions, activeSession, status, syncKey, homeConfig,
                   uiVars, localStorage, clock, nextId>>

\* handleClockIn after the location arrived
Sync_ClockInLocated ==
    /\ app = "Sync"
    /\ nextId <= MaxId
    /\ \E i \in 1..Len(pending) : \E userLoc \in Positions(app, homeConfig) :
        LET call == pending[i]
            newSess == [ id |-> nextId,
                         startTime |-> toISOString(call.now),
                         location |-> userLoc,
                         isOutOfBounds |-> FALSE ]
        IN  /\ pending' = RemoveAt(pending, i)
            /\ activeSession' = newSess
            /\ status' = CLOCKED_IN
            /\ localStorage' = saveToCloud(localStorage, call.syncKey,
                                           <<newSess>> \o call.sessions, newSess)
            /\ last' = [op |-> "ClockInLocated", outcome |-> "created"]
    /\ nextId' = nextId + 1
    /\ UNCHANGED <<aiVars, app, role, sessions, error, syncKey, homeConfig, uiVars, clock>>

\* handleClockIn after the location request failed or timed out
Sync_ClockInFailed ==
    /\ app = "Sync"
    /\ \E i \in 1..Len(pending) : pending' = RemoveAt(pending, i)
    /\ error' = [msg |-> "Location is required to clock in."]
    /\ last' = [op |-> "ClockInFailed", outcome |-> "aborted"]
    /\ UNCHANGED <<aiVars, app, role, sessions, activeSession, status, syncKey, homeConfig,
                   uiVars, localStorage, clock, nextId>>

\* Sync_handleClockOut saving to the cloud before it looks for an active session
Sync_handleClockOut_saveFirst ==
    IF activeSession = NULL
    THEN /\ localStorage' = saveToCloud(localStorage, syncKey, sessions, NULL)
         /\ last' = [op |-> "ClockOut", outcome |-> "noop"]
         /\ UNCHANGED <<sessions, activeSession, status, uiVars>>
    ELSE LET completed == completedSession(activeSession, clock)
             updated == <<completed>> \o sessions
         IN  /\ sessions' = updated
             /\ activeSession' = NULL
             /\ status' = CLOCKED_OUT
             /\ localStorage' = saveToCloud(localStorage, syncKey, updated, NULL)
             /\ Rerender(updated)
             /\ last' = [op |-> "ClockOut", outcome |-> "completed"]

\* handleClockOut
Sync_handleClockOut ==
    IF activeSession = NULL
    THEN /\ last' = [op |-> "ClockOut", outcome |-> "noop"]
         /\ UNCHANGED <<sessions, activeSession, status, localStorage, uiVars>>
    ELSE LET completed == completedSession(activeSession, clock)
             updated == <<completed>> \o sessions
         IN  /\ sessions' = updated
             /\ activeSession' = NULL
             /\ status' = CLOCKED_OUT
             /\ localStorage' = saveToCloud(localStorage, syncKey, updated, NULL)
             /\ Rerender(updated)
             /\ last' = [op |-> "ClockOut", outcome |-> "completed"]

\* the CLOCK OUT button, or a call from anywhere else where the handler
\* returns at once
Sync_ClockOut ==
    /\ app = "Sync"
    /\ ClockOutButton \/ activeSession = NULL
    /\ Sync_handleClockOut
    /\ UNCHANGED <<aiVars, app, role, error, syncKey, homeConfig, pending, clock, nextId>>

\* the Change Key button of the parent view, the prompt answered newKey, and
\* the load effect that runs when syncKey changed
Sync_ChangeKey ==
    /\ app = "Sync"
    /\ role = "PARENT"
    /\ \E newKey \in SyncKeys :
        LET store == setItem(localStorage, "nanny_sync_key", newKey)
            cur == [sessions |-> sessions, activeSession |-> activeSession, status |-> status]
            loaded == IF newKey # syncKey
                      THEN Sync_load(store, newKey, cur)
                      ELSE cur @@ [reloaded |-> FALSE]
        IN  /\ syncKey' = newKey
            /\ localStorage' = store
            /\ sessions' = loaded.sessions
            /\ activeSession' = loaded.activeSession
            /\ status' = loaded.status
            /\ IF loaded.reloaded THEN Rerender(loaded.sessions) ELSE UNCHANGED uiVars
            /\ last' = [op |-> "ChangeKey", outcome |-> IF newKey # syncKey THEN "switched" ELSE "same"]
    /\ UNCHANGED <<aiVars, app, role, error, homeConfig, pending, clock, nextId>>

-----------------------------------------------------------------------------
(* The page *)

Roles == {"NANNY", "PARENT"}

mount(a, store) == IF a = "App" THEN App_mount(store) ELSE Sync_mount(store)

\* the storage a first visit finds: empty, or (src/App.tsx, which reads the
\* home config at clock-in) holding a home config
InitialStores(a) ==
    { [x \in {} |-> <<>>] } \cup
    IF a = "App"
    THEN { [x \in {"home_config"} |-> StringifyObject(h, HomeConfigProps)] : h \in HomeConfigs }
    ELSE {}

DefaultHourlyRate == 25

Init ==
    /\ app \in {"App", "Sync"}
    /\ role \in Roles
    /\ \E store \in InitialStores(app) :
        LET m == mount(app, store)
        IN  /\ sessions = m.sessions
            /\ activeSession = m.activeSession
            /\ status = m.status
            /\ homeConfig = m.homeConfig
            /\ syncKey = m.syncKey
            /\ localStorage = m.localStorage
    /\ error = NULL
    /\ periodOffset = 0
    /\ hourlyRate = DefaultHourlyRate
    /\ filteredSessions = <<>>
    /\ totalHours = 0
    /\ totalPay = 0
    /\ pending = <<>>
    /\ clock = FirstReading
    /\ nextId = 1
    /\ aiSummary = ""
    /\ isAnalyzing = FALSE
    /\ summaryCalls = 0
    /\ last = [op |-> "Mount", outcome |-> "mounted"]

\* the page is loaded again, with ?role=r: the suspended calls are gone and
\* the component mounts on what localStorage holds
Reload ==
    /\ \E r \in Roles : role' = r
    /\ LET m == mount(app, localStorage)
           f == filterSessions(m.sessions, 0, clock)
           h == computeTotalHours(f)
       IN  /\ sessions' = m.sessions
           /\ activeSession' = m.activeSession
           /\ status' = m.status
           /\ homeConfig' = m.homeConfig
           /\ syncKey' = m.syncKey
           /\ localStorage' = m.localStorage
           /\ filteredSessions' = f
           /\ totalHours' = h
           /\ totalPay' = computeTotalPay(h, DefaultHourlyRate)
    /\ error' = NULL
    /\ periodOffset' = 0
    /\ hourlyRate' = DefaultHourlyRate
    /\ pending' = <<>>
    /\ aiSummary' = ""
    /\ isAnalyzing' = FALSE
    /\ summaryCalls' = 0
    /\ last' = [op |-> "Reload", outcome |-> "mounted"]
    /\ UNCHANGED <<app, clock, nextId>>

\* time passes
Tick ==
    /\ \E r \in Readings : r # clock /\ DateGE(r, clock) /\ clock' = r
    /\ UNCHANGED <<aiVars, app, role, sessions, activeSession, status, error, syncKey, homeConfig,
                   uiVars, localStorage, pending, nextId, last>>

\* the device's clock is set back (by the user or a time sync): new Date()
\* reads the system clock, which is not monotonic
ClockSetBack ==
    /\ \E r \in Readings : r # clock /\ DateGE(clock, r) /\ clock' = r
    /\ UNCHANGED <<aiVars, app, role, sessions, activeSession, status, error, syncKey, homeConfig,
                   uiVars, localStorage, pending, nextId, last>>

Next ==
    \/ App_ClockInStart
    \/ App_ClockInLocated
    \/ App_ClockInFailed
    \/ App_ClockOut
    \/ Sync_ClockInStart
    \/ Sync_ClockInLocated
    \/ Sync_ClockInFailed
    \/ Sync_ClockOut
    \/ Sync_ChangeKey
    \/ Reload
    \/ Tick

Spec == Init /\ [][Next]_vars

\* src/App.tsx alone
NextApp ==
    \/ App_ClockInStart
    \/ App_ClockInLocated
    \/ App_ClockInFailed
    \/ App_ClockOut
    \/ Reload
    \/ Tick

InitApp == Init /\ app = "App"

SpecApp == InitApp /\ [][NextApp]_vars

\* src/unnamed/part_001 alone
NextSync ==
    \/ Sync_ClockInStart
    \/ Sync_ClockInLocated
    \/ Sync_ClockInFailed
    \/ Sync_ClockOut
    \/ Sync_ChangeKey
    \/ Reload
    \/ Tick

InitSync == Init /\ app = "Sync"

SpecSync == InitSync /\ [][NextSync]_vars

\* src/App.tsx on a device whose clock can also be set back (part_001's
\* handleClockOut computes the duration by the same expression)
NextClock ==
    \/ App_ClockInStart
    \/ App_ClockInLocated
    \/ App_ClockInFailed
    \/ App_ClockOut
    \/ Reload
    \/ Tick
    \/ ClockSetBack

\* a first visit that finds the storage empty
InitClock == InitApp /\ localStorage = App_mount([x \in {} |-> <<>>]).localStorage

SpecClock == InitClock /\ [][NextClock]_vars

-----------------------------------------------------------------------------
(* The parent view: period and rate *)

Noon == 12 * 60 * 60 * 1000

(* The histories the parent view is checked on are the sub-lists of        *)
(* History, newest first as handleClockOut builds them (day 54 is 24       *)
(* February, day 68 is 10 March):                                          *)
(*   day 67, 10 minutes          day 67, not completed (no duration)       *)
(*   day 66, 30 minutes          day 60, 90 minutes                        *)
(*   day 54 at noon, 60 minutes  day 54 one ms before noon, 60 minutes     *)
(* The entry that is not completed is the copy of the active session that  *)
(* part_001's handleClockIn stores in the list; src/App.tsx stores none.   *)
HistorySession(n, day, ms, mins) ==
    completedSession([ id |-> n,
                       startTime |-> toISOString([day |-> day, ms |-> ms]),
                       location |-> [lat |-> 450, lng |-> 0],
                       isOutOfBounds |-> FALSE ],
                     [day |-> day, ms |-> ms + mins * MinuteMs])

History ==
    << HistorySession(6, 67, Noon, 10),
       [ id |-> 5, startTime |-> toISOString([day |-> 67, ms |-> Noon]),
         location |-> [lat |-> 450, lng |-> 0], isOutOfBounds |-> FALSE ],
       HistorySession(4, 66, Noon, 30),
       HistorySession(3, 60, Noon, 90),
       HistorySession(2, 54, Noon, 60),
       HistorySession(1, 54, Noon - 1, 60) >>

SubList(seq, keep) == SelectSeq([i \in 1..Len(seq) |-> <<i, seq[i]>>], LAMBDA p : p[1] \in keep)

Histories(a) ==
    { [i \in 1..Len(SubList(History, keep)) |-> SubList(History, keep)[i][2]] :
        keep \in SUBSET { i \in 1..Len(History) : a = "Sync" \/ IsCompleted(History[i]) } }

\* the parent view is opened at noon of 10 March or of 30 March
PeriodNows == { [day |-> 68, ms |-> Noon], [day |-> 88, ms |-> Noon] }

HourlyRates == {0, 15, DefaultHourlyRate}

\* the storage that holds the history hist for the mounted component
StoreOf(a, hist) ==
    IF a = "App"
    THEN [x \in {"nanny_sessions"} |-> StringifySessions(hist)]
    ELSE [x \in {SessionsKey(DefaultSyncKey)} |-> StringifySessions(hist)]

InitPeriod ==
    /\ app \in {"App", "Sync"}
    /\ role = "PARENT"
    /\ clock \in PeriodNows
    /\ \E hist \in Histories(app) :
        LET m == mount(app, StoreOf(app, hist))
            f == filterSessions(m.sessions, 0, clock)
            h == computeTotalHours(f)
        IN  /\ sessions = m.sessions
            /\ activeSession = m.activeSession
            /\ status = m.status
            /\ homeConfig = m.homeConfig
            /\ syncKey = m.syncKey
            /\ localStorage = m.localStorage
            /\ filteredSessions = f
            /\ totalHours = h
            /\ totalPay = computeTotalPay(h, DefaultHourlyRate)
    /\ error = NULL
    /\ periodOffset = 0
    /\ hourlyRate = DefaultHourlyRate
    /\ pending = <<>>
    /\ nextId = Len(History) + 1
    /\ aiSummary = ""
    /\ isAnalyzing = FALSE
    /\ summaryCalls = 0
    /\ last = [op |-> "Mount", outcome |-> "mounted"]

\* the Current / Previous buttons: setPeriodOffset, and the memos after it
SelectPeriod ==
    /\ role = "PARENT"
    /\ \E o \in 0..MaxOffset :
        LET f == filterSessions(sessions, o, clock)
            h == computeTotalHours(f)
        IN  /\ periodOffset' = o
            /\ filteredSessions' = f
            /\ totalHours' = h
            /\ totalPay' = computeTotalPay(h, hourlyRate)
    /\ last' = [op |-> "SelectPeriod", outcome |-> "selected"]
    /\ UNCHANGED <<aiVars, app, role, sessions, activeSession, status, error, syncKey, homeConfig,
                   hourlyRate, localStorage, pending, clock, nextId>>

\* the rate input: setHourlyRate, and the totalPay memo after it
SetHourlyRate ==
    /\ role = "PARENT"
    /\ \E r \in HourlyRates :
        /\ hourlyRate' = r
        /\ totalPay' = computeTotalPay(totalHours, r)
    /\ last' = [op |-> "SetHourlyRate", outcome |-> "set"]
    /\ UNCHANGED <<aiVars, app, role, sessions, activeSession, status, error, syncKey, homeConfig,
                   periodOffset, filteredSessions, totalHours, localStorage, pending,
                   clock, nextId>>

NextPeriod ==
    \/ SelectPeriod
    \/ SetHourlyRate

SpecPeriod == InitPeriod /\ [][NextPeriod]_vars

-----------------------------------------------------------------------------
(* The Summary Requester: services/geminiService.ts and the report button  *)

FallbackSummary == "Could not generate summary at this time."

(* What ai.models.generateContent does: it resolves with a response whose  *)
(* text is the summary, or it rejects (no key, no network, quota, ...).    *)
ServiceOutcomes ==
    { [ok |-> TRUE, text |-> "Total hours worked: ..."], [ok |-> FALSE] }

\* getSessionSummary without its try / catch: the rejection reaches the caller
getSessionSummary_noCatch(outcome) ==
    IF outcome.ok
    THEN [threw |-> FALSE, value |-> outcome.text]
    ELSE [threw |-> TRUE]

\* getSessionSummary: what the awaited call gives its caller
getSessionSummary(outcome) ==
    IF outcome.ok
    THEN [threw |-> FALSE, value |-> outcome.text]
    ELSE [threw |-> FALSE, value |-> FallbackSummary]

\* the report button's handler up to await getSessionSummary(filteredSessions)
GenerateReport ==
    /\ role = "PARENT"
    /\ summaryCalls < MaxSummaryCalls
    /\ isAnalyzing' = TRUE
    /\ summaryCalls' = summaryCalls + 1
    /\ last' = [op |-> "GenerateReport", outcome |-> "pending"]
    /\ UNCHANGED <<app, role, sessions, activeSession, status, error, syncKey, homeConfig,
                   uiVars, localStorage, pending, clock, nextId, aiSummary>>

(* The handler after the await, the service having ended with outcome: a   *)
(* value goes to setAiSummary and setIsAnalyzing(false) follows; had the   *)
(* call thrown, the handler would end there, rejected.                     *)
reportResumed(outcome) ==
    LET result == getSessionSummary(outcome)
    IN  /\ summaryCalls > 0
        /\ summaryCalls' = summaryCalls - 1
        /\ IF result.threw
           THEN /\ last' = [op |-> "Summary", outcome |-> "rejected"]
                /\ UNCHANGED <<aiSummary, isAnalyzing>>
           ELSE /\ aiSummary' = result.value
                /\ isAnalyzing' = FALSE
                /\ last' = [op |-> "Summary",
                            outcome |-> IF outcome.ok THEN "text" ELSE "fallback"]
        /\ UNCHANGED <<app, role, sessions, activeSession, status, error, syncKey,
                       homeConfig, uiVars, localStorage, pending, clock, nextId>>

\* the summary service answered
SummaryReturned == \E outcome \in ServiceOutcomes : outcome.ok /\ reportResumed(outcome)

\* the summary service failed
SummaryFailed == \E outcome \in ServiceOutcomes : ~outcome.ok /\ reportResumed(outcome)

\* the parent view with its report button
NextSummary ==
    \/ SelectPeriod
    \/ SetHourlyRate
    \/ GenerateReport
    \/ SummaryReturned
    \/ SummaryFailed

SpecSummary == InitPeriod /\ [][NextSummary]_vars

-----------------------------------------------------------------------------
(* What the claims speak of *)

\* the storage keys of the session list and of the active slot in use
SessionsKeyNow == IF app = "App" THEN "nanny_sessions" ELSE SessionsKey(syncKey)
ActiveKeyNow == IF app = "App" THEN "nanny_active_session" ELSE ActiveKey(syncKey)

\* the persisted session list and active slot
StoredSessions ==
    IF hasItem(localStorage, SessionsKeyNow)
    THEN ParseSessions(localStorage[SessionsKeyNow]) ELSE <<>>
StoredActive ==
    IF hasItem(localStorage, ActiveKeyNow)
    THEN ParseObject(localStorage[ActiveKeyNow]) ELSE NULL

\* the ids of the sessions of a list that have no endTime
ActiveIdsIn(list) == { list[i].id : i \in { j \in 1..Len(list) : ~IsCompleted(list[j]) } }

\* the ids of the sessions with no endTime, in memory and in storage
ActiveSessionIds ==
    (IF activeSession # NULL /\ ~IsCompleted(activeSession) THEN {activeSession.id} ELSE {})
    \cup ActiveIdsIn(sessions)
    \cup (IF StoredActive # NULL /\ ~IsCompleted(StoredActive) THEN {StoredActive.id} ELSE {})
    \cup ActiveIdsIn(StoredSessions)

CompletedCount(list) == Cardinality({ i \in 1..Len(list) : IsCompleted(list[i]) })

ClockOutStep == App_ClockOut \/ Sync_ClockOut
ClockInLocatedStep == App_ClockInLocated \/ Sync_ClockInLocated
ClockInFailedStep == App_ClockInFailed \/ Sync_ClockInFailed

sessionState == <<sessions, activeSession, status, localStorage>>

-----------------------------------------------------------------------------
(* C1: in every reachable state at most one session without endTime exists, *)
(* counting the active slot and the session list, in memory and in storage. *)
(* part_001 breaks it: clock in, reload, clock out, clock in.               *)
C1_AtMostOneActive == Cardinality(ActiveSessionIds) <= 1

(* C2: a clock-in that succeeded gives the session the time the clock-in    *)
(* was invoked as startTime; the clock-out of an active session puts        *)
(* exactly one completed session of that id into the history, one more      *)
(* completed session than before, with the same startTime, the clock-out    *)
(* time as endTime and durationInMinutes the integer nearest to             *)
(* (endTime - startTime) / 60000, a half rounded up.                        *)
C2_ClockInThenOut ==
    [][ /\ (ClockInLocatedStep /\ last'.outcome = "created") =>
              \E i \in 1..Len(pending) :
                  DateParse(activeSession'.startTime) = pending[i].now
        /\ (ClockOutStep /\ activeSession # NULL) =>
              LET c == Head(sessions')
                  elapsed == ElapsedMs(DateParse(c.endTime), DateParse(c.startTime))
              IN  /\ CompletedCount(sessions') = CompletedCount(sessions) + 1
                  /\ Cardinality({ i \in 1..Len(sessions') :
                         sessions'[i].id = activeSession.id /\ IsCompleted(sessions'[i]) }) = 1
                  /\ IsCompleted(c) /\ HasDuration(c)
                  /\ c.id = activeSession.id
                  /\ c.startTime = activeSession.startTime
                  /\ DateParse(c.endTime) = clock
                  /\ 2 * MinuteMs * c.durationInMinutes - MinuteMs <= 2 * elapsed
                  /\ 2 * elapsed < 2 * MinuteMs * c.durationInMinutes + MinuteMs
      ]_vars

\* C2's case: a session that a reload of part_001 restored (its stored copy
\* is the second entry of the list) was clocked out 59999 ms after its
\* clock-in and is the one completed session, of one minute
C2_Witness ==
    /\ last.op = "ClockOut" /\ last.outcome = "completed"
    /\ Len(sessions) = 2
    /\ CompletedCount(sessions) = 1
    /\ sessions[2].id = sessions[1].id
    /\ Head(sessions).durationInMinutes = 1
    /\ ElapsedMs(DateParse(Head(sessions).endTime), DateParse(Head(sessions).startTime)) = 59999

(* C3: handleClockOut called while no session is active changes neither the *)
(* history, nor the active slot, nor the status, nor the storage.           *)
C3_ClockOutNoop ==
    [][ (ClockOutStep /\ activeSession = NULL) => UNCHANGED sessionState ]_vars

\* C3's case: handleClockOut was called with no active session, a history
\* already recorded
C3_Witness ==
    /\ last.op = "ClockOut" /\ last.outcome = "noop"
    /\ activeSession = NULL
    /\ sessions # <<>>

(* C4: a clock-in whose location request fails or times out ends with an    *)
(* error message the user sees and leaves the history, the active slot, the *)
(* status and the storage as they were.  part_001 sets the message and      *)
(* renders it nowhere.                                                      *)
C4_LocationFailure ==
    [][ ClockInFailedStep =>
          /\ renderedError' # NULL
          /\ UNCHANGED sessionState ]_vars

(* C5: after a clock-in whose location arrived, with the geofence skipped   *)
(* exactly for the home (0, 0): a position farther from home than           *)
(* radiusMeters was refused with the distance-mismatch error, any other     *)
(* position made the session.  src/App.tsx skips the check for every home   *)
(* of latitude 0.                                                           *)
C5_Geofence ==
    last.op = "ClockInLocated" =>
        LET userLoc == IF last.outcome = "created" THEN activeSession.location
                       ELSE last.userLoc
            skipped == homeConfig.lat = 0 /\ homeConfig.lng = 0
            outside == /\ ~skipped
                       /\ OutsideRadius(calculateDistance(userLoc.lat, userLoc.lng,
                                            homeConfig.lat, homeConfig.lng), homeConfig)
        IN  IF outside
            THEN last.outcome = "mismatch" /\ error # NULL /\ error.msg = "Location mismatch"
            ELSE last.outcome = "created"

(* C6: switching to a sync key under which nothing is stored gives an empty *)
(* session list and no active session.  part_001's load effect leaves the   *)
(* state of the key before in place.                                        *)
C6_PartitionsDoNotLeak ==
    [][ ( /\ Sync_ChangeKey
          /\ syncKey' # syncKey
          /\ ~hasItem(localStorage, SessionsKey(syncKey'))
          /\ ~hasItem(localStorage, ActiveKey(syncKey')) )
        => (sessions' = <<>> /\ activeSession' = NULL) ]_vars

(* C7: a reload under the same key restores the session list and the active *)
(* session held in memory just before it, with status CLOCKED_IN iff an     *)
(* active session was restored.  part_001's handleClockIn stores the new    *)
(* session in the list as well, so the list comes back longer.              *)
C7_RoundTrip ==
    [][ (Reload /\ syncKey' = syncKey) =>
          /\ sessions' = sessions
          /\ activeSession' = activeSession
          /\ (status' = CLOCKED_IN <=> activeSession' # NULL) ]_vars

(* C8: the period filter returns exactly the sessions whose startTime lies  *)
(* in [start, start + 14 days], start = now - 14 * (periodOffset + 1) days. *)
(* The code takes the END of the window from the day of the month of its    *)
(* start, set in the current month: a start in an earlier month moves the   *)
(* end a month on.                                                          *)
InClaimedWindow(s, offset, now) ==
    LET start == [day |-> now.day - cycleDays * (offset + 1), ms |-> now.ms]
        end == [day |-> start.day + cycleDays, ms |-> now.ms]
        sDate == DateParse(s.startTime)
    IN  DateGE(sDate, start) /\ DateGE(end, sDate)

C8_PeriodWindow ==
    filteredSessions = SelectSeq(sessions, LAMBDA s : InClaimedWindow(s, periodOffset, clock))

(* C9: totalHours is the sum of the filtered durations (none counting 0)    *)
(* over 60 and totalPay that totalHours times hourlyRate, each rounded to   *)
(* two decimals.  The code multiplies the ROUNDED totalHours by the rate.   *)
C9_Totals ==
    LET minutes == SumDurations(filteredSessions)
    IN  /\ totalHours = toFixed2(minutes, 60)
        /\ totalPay = toFixed2(minutes * hourlyRate, 60)

(* C10: every entry of the session list, in memory and in storage, is a     *)
(* completed session: it has endTime and durationInMinutes.  part_001's     *)
(* handleClockIn stores the active session in the list.                     *)
C10_ListHoldsCompletedOnly ==
    /\ \A i \in 1..Len(sessions) : IsCompleted(sessions[i]) /\ HasDuration(sessions[i])
    /\ \A i \in 1..Len(StoredSessions) :
          IsCompleted(StoredSessions[i]) /\ HasDuration(StoredSessions[i])

-----------------------------------------------------------------------------
\* the sessions of a list that have an endTime
Completed(list) == SelectSeq(list, IsCompleted)

\* the session list stored under a sync key (part_001) or under the fixed key
StoredUnder(key) ==
    LET k == IF app = "App" THEN "nanny_sessions" ELSE SessionsKey(key)
    IN  IF hasItem(localStorage, k) THEN ParseSessions(localStorage[k]) ELSE <<>>

\* every session the program holds: the list in memory and the stored lists
RecordedSessions ==
    { sessions[i] : i \in 1..Len(sessions) }
    \cup UNION { { StoredUnder(k)[i] : i \in 1..Len(StoredUnder(k)) } : k \in SyncKeys }

(* C11: the durationInMinutes of every completed session, in memory and in  *)
(* storage, is at least 0, whatever the two wall-clock readings.  The code  *)
(* rounds now - startTime as it is: a clock set back by more than half a    *)
(* minute between clock-in and clock-out gives a negative duration.         *)
C11_DurationNotNegative ==
    \A s \in RecordedSessions : HasDuration(s) => s.durationInMinutes >= 0

-----------------------------------------------------------------------------
ClockInStep ==
    \/ App_ClockInStart \/ App_ClockInLocated \/ App_ClockInFailed
    \/ Sync_ClockInStart \/ Sync_ClockInLocated \/ Sync_ClockInFailed

\* the sessions of old are all in new, unaltered and in the same order
Keeps(old, new) ==
    old = SelectSeq(new, LAMBDA s : \E i \in 1..Len(old) : old[i] = s)

\* no completed session of a stored list is removed, reordered or altered
StoredHistoryKept ==
    \A k \in SyncKeys :
        Keeps(Completed(StoredUnder(k)), Completed(StoredUnder(k))')

\* the part of C12 about the list in memory
C12_InMemory ==
    [][ /\ (ClockOutStep /\ activeSession # NULL) =>
              /\ Tail(sessions') = sessions
              /\ IsCompleted(Head(sessions')) /\ Head(sessions').id = activeSession.id
              /\ activeSession' = NULL
              /\ status' = CLOCKED_OUT
        /\ ClockInStep => sessions' = sessions ]_vars

(* C12: the clock-out of an active session puts the completed session in    *)
(* front of the history, with the history before it unchanged behind it,    *)
(* empties the active slot and sets CLOCKED_OUT; a clock-in leaves the      *)
(* history as it is; and neither removes, reorders or alters a completed    *)
(* session of the stored history.  part_001's handleClockIn stores the new  *)
(* session in front of the sessions of the render that started it: a        *)
(* session completed since then is dropped from the stored history.         *)
C12_HistoryKept ==
    [][ /\ (ClockOutStep /\ activeSession # NULL) =>
              /\ Tail(sessions') = sessions
              /\ IsCompleted(Head(sessions')) /\ Head(sessions').id = activeSession.id
              /\ activeSession' = NULL
              /\ status' = CLOCKED_OUT
              /\ StoredHistoryKept
        /\ ClockInStep => (sessions' = sessions /\ StoredHistoryKept) ]_vars

-----------------------------------------------------------------------------
\* the active session stored under a sync key (part_001) or under the fixed key
StoredActiveUnder(key) ==
    LET k == IF app = "App" THEN "nanny_active_session" ELSE ActiveKey(key)
    IN  IF hasItem(localStorage, k) THEN ParseObject(localStorage[k]) ELSE NULL

\* every session there is: the active slot and the list, in memory and stored
AllSessions ==
    RecordedSessions
    \cup (({activeSession} \cup { StoredActiveUnder(k) : k \in SyncKeys }) \ {NULL})

(* C13: every session, in the active slot, in the history and in storage,   *)
(* has both endTime and durationInMinutes or has neither.                   *)
C13_EndTimeWithDuration ==
    \A s \in AllSessions : IsCompleted(s) <=> HasDuration(s)

\* C13's case: a session is active, in memory and stored, while the stored
\* history holds a completed session of 0 minutes
C13_Witness ==
    /\ activeSession # NULL
    /\ StoredActive # NULL
    /\ \E i \in 1..Len(StoredSessions) :
          /\ IsCompleted(StoredSessions[i])
          /\ HasDuration(StoredSessions[i])
          /\ StoredSessions[i].durationInMinutes = 0

-----------------------------------------------------------------------------
(* C14: when the summary service fails, the report handler ends normally    *)
(* with the fallback text as the summary and the analyzing flag false, and  *)
(* the history, the active slot, the status and the storage are as before.  *)
C14_SummaryFallback ==
    [][ SummaryFailed =>
          /\ last'.outcome = "fallback"
          /\ aiSummary' = "Could not generate summary at this time."
          /\ isAnalyzing' = FALSE
          /\ UNCHANGED sessionState ]_vars

\* C14's case: the service failed on the last request in flight; the
\* fallback text is the summary and the flag is false, with a history recorded
C14_Witness ==
    /\ last.op = "Summary" /\ last.outcome = "fallback"
    /\ aiSummary = FallbackSummary
    /\ ~isAnalyzing
    /\ summaryCalls = 0
    /\ sessions # <<>>

-----------------------------------------------------------------------------
(* C15: between two handlers status is CLOCKED_IN when the active slot      *)
(* holds a session and CLOCKED_OUT when it holds none; it is never IDLE.    *)
C15_StatusTracksActive ==
    /\ status \in {CLOCKED_IN, CLOCKED_OUT}
    /\ status = CLOCKED_IN <=> activeSession # NULL

\* C15's case: part_001's parent view switched to another sync key while a
\* session was active and a history was recorded
C15_Witness ==
    /\ last.op = "ChangeKey" /\ last.outcome = "switched"
    /\ activeSession # NULL
    /\ status = CLOCKED_IN
    /\ sessions # <<>>

-----------------------------------------------------------------------------
(* C16: a session leaves the active slot only by a clock-out that puts it,  *)
(* completed, at the head of the history.  handleClockIn does not look at   *)
(* the active slot after the location arrived: of two calls suspended       *)
(* together, the second to resume replaces the session the first made.      *)
C16_NoSessionDiscarded ==
    [][ (activeSession # NULL /\ activeSession' # activeSession) =>
          /\ ClockOutStep
          /\ sessions' # <<>>
          /\ IsCompleted(Head(sessions'))
          /\ Head(sessions').id = activeSession.id ]_vars

-----------------------------------------------------------------------------
\* session a ends no later than session b starts
EndsBefore(a, b) == DateGE(DateParse(b.startTime), DateParse(a.endTime))

(* C17: with a clock that never goes back, of any two different completed   *)
(* sessions of the history one ends no later than the other starts.         *)
(* handleClockIn reads the clock before it waits for the location: a call   *)
(* that resumes after another session was clocked in and out makes a        *)
(* session that starts before that one ended.                               *)
C17_NoOverlap ==
    \A a, b \in { s \in RecordedSessions : IsCompleted(s) } :
        a.id # b.id => (EndsBefore(a, b) \/ EndsBefore(b, a))

=============================================================================
